---- MODULE Spec2Model ----
(***************************************************************************)
(* ChartCreator (visualization-app): the Data Preparer (validate_data,     *)
(* process_data), the Chart Builder (DataVisualizer.create_chart) and the  *)
(* per-interaction script (DataVisualizer.__init__ / run) as state         *)
(* machines.                                                               *)
(*                                                                         *)
(* A DataFrame is a record [columns, index, data]: the column labels in    *)
(* order, the row labels in order (pandas keeps a row's label when other   *)
(* rows are dropped) and the cells, data[i][j] being row i, column j.      *)
(* A cell is one of                                                        *)
(*   NA                 a missing value (NaN / None / pd.NA)               *)
(*   "n1"               the number 1                                       *)
(*   "+Inf", "-Inf"     float('inf'), float('-inf')                        *)
(*   "'1'" "'x'" "'inf'" the strings "1", "x" and "inf"                    *)
(***************************************************************************)
EXTENDS Integers, Sequences, FiniteSets, TLC

VARIABLES
    tbl,        \* the DataFrame at hand (the uploaded file, read)
    vres,       \* validate_data's answer
    out1,       \* process_data's answer (df, in run)
    out2,       \* process_data applied to out1
    uout,       \* utils.process_data's answer
    pc,         \* where the script is
    settings,   \* the settings dict handed to create_chart
    fig,        \* create_chart's return value: <<>> for None, <<figure>>
    errors,     \* the st.error messages of this run, in order
    calls,      \* the chart_params of each call of the px constructor
    session,    \* st.session_state
    uploaded,   \* whether the file uploader holds a file
    log         \* the Data Preparer / Chart Builder calls of this run

vars == <<tbl, vres, out1, out2, uout, pc, settings, fig, errors, calls,
          session, uploaded, log>>
prepVars == <<vres, out1, out2, uout>>
chartVars == <<settings, fig, errors, calls>>
uiVars == <<session, uploaded, log>>

\* ------------------------------------------------------------ bounds
MaxRows == 3
MaxCols == 3
MaxCells == 4
MaxPath == 2
MaxChartCols == 2

\* ------------------------------------------------------------- cells
NA == "NA"
PosInf == "+Inf"
NegInf == "-Inf"
Numbers == {"n1"}
Texts == {"'1'", "'x'", "'inf'"}
Cells == {NA, PosInf, NegInf} \cup Numbers \cup Texts
Names == {"a", "b", "c"}

IsNA(c) == c = NA
IsInf(c) == c \in {PosInf, NegInf}

\* the positions i with keep[i], in increasing order
KeptPositions(keep) == SelectSeq([i \in 1..Len(keep) |-> i], LAMBDA i : keep[i])

Frame(columns, index, data) ==
    [columns |-> columns, index |-> index, data |-> data]

NRows(df) == Len(df.index)
NCols(df) == Len(df.columns)
Column(df, j) == [i \in 1..NRows(df) |-> df.data[i][j]]

\* the frames of the model: up to MaxRows rows and MaxCols columns, MaxCells
\* cells in all, any labels (repeated ones too), any cells, rows labelled 1..r
Shapes == { s \in (0..MaxRows) \X (0..MaxCols) : s[1] * s[2] <= MaxCells }

IsTable(df) ==
    \E s \in Shapes :
        \E cols \in [1..s[2] -> Names], data \in [1..s[1] -> [1..s[2] -> Cells]] :
            df = Frame(cols, [i \in 1..s[1] |-> i], data)

\* ---------------------------------------------------- validate_data
\* df is a frame here: pd.read_csv returns one or raises, so the
\* "df is None" answer of validate_data is not drawn.
Duplicated(columns) ==
    \E i, j \in 1..Len(columns) : i < j /\ columns[i] = columns[j]

IsEmpty(df) == NRows(df) = 0 \/ NCols(df) = 0

Verdict(ok, msg) == [valid |-> ok, message |-> msg]

\* mutant: the duplicate-labels check is missing (as in utils.validate_data)
validate_data_no_duplicates_check(df) ==
    IF IsEmpty(df) THEN Verdict(FALSE, "The uploaded file is empty")
    ELSE IF NCols(df) < 2
        THEN Verdict(FALSE, "File must contain at least two columns")
    ELSE Verdict(TRUE, "")

validate_data(df) ==
    IF IsEmpty(df) THEN Verdict(FALSE, "The uploaded file is empty")
    ELSE IF NCols(df) < 2
        THEN Verdict(FALSE, "File must contain at least two columns")
    ELSE IF Duplicated(df.columns)
        THEN Verdict(FALSE, "File contains duplicate column names")
    ELSE Verdict(TRUE, "")

\* ----------------------------------------------------- process_data
\* None of the four steps raises on these frames, so the outer
\* "except Exception: st.error(...); return df" is not taken. pd.to_numeric
\* is the one of the pandas releases that accept errors='ignore'.
\* mutant: how='any' instead of how='all'
dropna_rows_any(df) ==
    LET keep == [i \in 1..NRows(df) |-> \A j \in 1..NCols(df) : ~IsNA(df.data[i][j])]
        ks == KeptPositions(keep)
    IN  Frame(df.columns,
              [k \in 1..Len(ks) |-> df.index[ks[k]]],
              [k \in 1..Len(ks) |-> df.data[ks[k]]])

\* df.dropna(how='all'): a row goes when none of its cells is present
dropna_rows(df) ==
    LET keep == [i \in 1..NRows(df) |-> \E j \in 1..NCols(df) : ~IsNA(df.data[i][j])]
        ks == KeptPositions(keep)
    IN  Frame(df.columns,
              [k \in 1..Len(ks) |-> df.index[ks[k]]],
              [k \in 1..Len(ks) |-> df.data[ks[k]]])

\* df.dropna(axis=1, how='all'): the same for columns
dropna_cols(df) ==
    LET keep == [j \in 1..NCols(df) |-> \E i \in 1..NRows(df) : ~IsNA(df.data[i][j])]
        ks == KeptPositions(keep)
    IN  Frame([k \in 1..Len(ks) |-> df.columns[ks[k]]],
              df.index,
              [i \in 1..NRows(df) |-> [k \in 1..Len(ks) |-> df.data[i][ks[k]]]])

\* df.replace([inf, -inf], pd.NA): float infinities only; the string "inf"
\* is not equal to float('inf') and stays
replace_inf(df) ==
    Frame(df.columns, df.index,
          [i \in 1..NRows(df) |->
              [j \in 1..NCols(df) |->
                  IF IsInf(df.data[i][j]) THEN NA ELSE df.data[i][j]]])

\* pd.to_numeric on one cell: numbers, infinities and missing values are
\* numeric already; a string is parsed ("1" -> 1, "inf" -> inf, "x" fails)
NumericTexts == {"'1'", "'inf'"}

Parses(c) == c \notin Texts \/ c \in NumericTexts

ParseCell(c) ==
    CASE c = "'1'" -> "n1"
      [] c = "'inf'" -> PosInf
      [] OTHER -> c

\* a column has dtype object when it holds a Python object that is not a
\* float: here, a string
IsObject(col) == \E i \in DOMAIN col : col[i] \in Texts

\* mutant: errors='coerce' instead of errors='ignore'
to_numeric_coerce(col) ==
    [i \in DOMAIN col |-> IF Parses(col[i]) THEN ParseCell(col[i]) ELSE NA]

\* pd.to_numeric(col, errors='ignore'), and equally
\* try: pd.to_numeric(col) except: pass -- the whole column or nothing
to_numeric_ignore(col) ==
    IF \A i \in DOMAIN col : Parses(col[i])
    THEN [i \in DOMAIN col |-> ParseCell(col[i])]
    ELSE col

\* df[col] for a label that occurs once is that column; for a repeated label
\* it is a frame, whose .dtype raises, and the loop moves on
Unique(df, j) == \A k \in 1..NCols(df) : df.columns[k] = df.columns[j] => k = j

coerce_columns(df) ==
    LET newcol(j) ==
            IF Unique(df, j) /\ IsObject(Column(df, j))
            THEN to_numeric_ignore(Column(df, j))
            ELSE Column(df, j)
    IN  Frame(df.columns, df.index,
              [i \in 1..NRows(df) |-> [j \in 1..NCols(df) |-> newcol(j)[i]]])

process_data(df) == coerce_columns(replace_inf(dropna_cols(dropna_rows(df))))

utils_process_data(df) == coerce_columns(dropna_cols(dropna_rows(df)))

\* ------------------------------------------- the Data Preparer alone
NoFrame == Frame(<<>>, <<>>, <<>>)
NoVerdict == Verdict(FALSE, "-")
NoSettings == [chart_type |-> "-"]
NoSession == [k \in {} |-> "-"]

PrepInit ==
    /\ IsTable(tbl)
    /\ vres = NoVerdict
    /\ out1 = NoFrame
    /\ out2 = NoFrame
    /\ uout = NoFrame
    /\ pc = "start"
    /\ settings = NoSettings
    /\ fig = <<>>
    /\ errors = <<>>
    /\ calls = <<>>
    /\ session = NoSession
    /\ uploaded = FALSE
    /\ log = <<>>

Validate ==
    /\ pc = "start"
    /\ vres' = validate_data(tbl)
    /\ pc' = "validated"
    /\ UNCHANGED <<tbl, out1, out2, uout, chartVars, uiVars>>

Process ==
    /\ pc = "validated"
    /\ out1' = process_data(tbl)
    /\ pc' = "processed"
    /\ UNCHANGED <<tbl, vres, out2, uout, chartVars, uiVars>>

ProcessAgain ==
    /\ pc = "processed"
    /\ out2' = process_data(out1)
    /\ pc' = "reprocessed"
    /\ UNCHANGED <<tbl, vres, out1, uout, chartVars, uiVars>>

UtilsProcess ==
    /\ pc = "reprocessed"
    /\ uout' = utils_process_data(tbl)
    /\ pc' = "done"
    /\ UNCHANGED <<tbl, vres, out1, out2, chartVars, uiVars>>

PrepNext == Validate \/ Process \/ ProcessAgain \/ UtilsProcess

SpecPrep == PrepInit /\ [][PrepNext]_vars

\* ------------------------------------------------------ create_chart
ChartTypes == {"Sunburst", "Treemap", "Icicle"}
Unset == "<unset>"      \* None: settings.get(key) is falsy
Absent == "<absent>"    \* a key chart_params does not hold

Msg(text, names) == [text |-> text, names |-> names]

Has(df, name) == \E j \in 1..NCols(df) : df.columns[j] = name

\* settings.get(key) and settings[key] != sentinel
Chosen(v, sentinel) == v # Unset /\ v # sentinel

\* [col for col in settings['path_columns'] if col not in df.columns]
missing_cols(df, s) == SelectSeq(s.path_columns, LAMBDA col : ~Has(df, col))

\* mutant: the chart type is looked up before the hierarchy is looked at
first_failure_type_first(df, s) ==
    IF s.chart_type \notin ChartTypes
        THEN << Msg("Invalid chart type", <<s.chart_type>>) >>
    ELSE IF s.path_columns = <<>>
        THEN << Msg("No hierarchy columns selected", <<>>) >>
    ELSE IF missing_cols(df, s) # <<>>
        THEN << Msg("Columns not found in data", missing_cols(df, s)) >>
    ELSE IF Chosen(s.values_column, "None") /\ ~Has(df, s.values_column)
        THEN << Msg("Values column not found in data", <<s.values_column>>) >>
    ELSE IF Chosen(s.color_column, "None") /\ ~Has(df, s.color_column)
        THEN << Msg("Color column not found in data", <<s.color_column>>) >>
    ELSE <<>>

\* the raise statements of the try block in the order they are reached:
\* <<>> when none is, else the ValueError raised
first_failure(df, s) ==
    IF s.path_columns = <<>>
        THEN << Msg("No hierarchy columns selected", <<>>) >>
    ELSE IF s.chart_type \notin ChartTypes
        THEN << Msg("Invalid chart type", <<s.chart_type>>) >>
    ELSE IF missing_cols(df, s) # <<>>
        THEN << Msg("Columns not found in data", missing_cols(df, s)) >>
    ELSE IF Chosen(s.values_column, "None") /\ ~Has(df, s.values_column)
        THEN << Msg("Values column not found in data", <<s.values_column>>) >>
    ELSE IF Chosen(s.color_column, "None") /\ ~Has(df, s.color_column)
        THEN << Msg("Color column not found in data", <<s.color_column>>) >>
    ELSE <<>>

\* mutant: the palette is attached only together with a coloring field
chart_params_scale_with_color(df, s) ==
    [ data_frame |-> df,
      path |-> s.path_columns,
      width |-> s.width,
      height |-> s.height,
      values |-> IF Chosen(s.values_column, "None") THEN s.values_column ELSE Absent,
      color |-> IF Chosen(s.color_column, "None") THEN s.color_column ELSE Absent,
      color_continuous_scale |->
          IF Chosen(s.color_column, "None") /\ Chosen(s.color_scheme, "Default")
          THEN s.color_scheme ELSE Absent ]

\* chart_params as it stands when the constructor is called
chart_params(df, s) ==
    [ data_frame |-> df,
      path |-> s.path_columns,
      width |-> s.width,
      height |-> s.height,
      values |-> IF Chosen(s.values_column, "None") THEN s.values_column ELSE Absent,
      color |-> IF Chosen(s.color_column, "None") THEN s.color_column ELSE Absent,
      color_continuous_scale |->
          IF Chosen(s.color_scheme, "Default") THEN s.color_scheme ELSE Absent ]

\* fig after update_layout
Figure(s, params) ==
    [ chart |-> s.chart_type, params |-> params,
      layout |-> "margin t=30 l=10 r=10 b=10, title centred" ]

Returned(f, cs) == [fig |-> <<f>>, errors |-> <<>>, calls |-> cs]
\* except Exception as e: st.error(...); return None
Caught(e, cs) ==
    [ fig |-> <<>>,
      errors |-> << [prefix |-> "Error creating visualization",
                     text |-> e.text, names |-> e.names] >>,
      calls |-> cs ]

\* mutant: the chart is constructed from the base parameters as soon as the
\* hierarchy is known, before the optional columns are checked
create_chart_eager(df, s, ctor_ok) ==
    LET failed == first_failure(df, s)
        params == chart_params(df, s)
        early == failed # <<>> /\ s.path_columns # <<>>
                 /\ s.chart_type \in ChartTypes /\ missing_cols(df, s) = <<>>
    IN  IF failed # <<>>
            THEN Caught(failed[1], IF early THEN <<params>> ELSE <<>>)
        ELSE IF ctor_ok THEN Returned(Figure(s, params), <<params>>)
        ELSE Caught(Msg("<raised by the chart constructor>", <<>>), <<params>>)

\* create_chart: the checks, then one call of the px constructor, which
\* returns a figure (ctor_ok) or raises
create_chart(df, s, ctor_ok) ==
    LET failed == first_failure(df, s)
        params == chart_params(df, s)
    IN  IF failed # <<>> THEN Caught(failed[1], <<>>)
        ELSE IF ctor_ok THEN Returned(Figure(s, params), <<params>>)
        ELSE Caught(Msg("<raised by the chart constructor>", <<>>), <<params>>)

\* ------------------------------------------- the Chart Builder alone
\* a cleaned table: distinct labels, one row of numbers
IsChartTable(df) ==
    \E c \in 0..MaxChartCols :
        \E cols \in [1..c -> Names] :
            /\ \A i, j \in 1..c : cols[i] = cols[j] => i = j
            /\ df = Frame(cols, <<1>>, << [j \in 1..c |-> "n1"] >>)

IsSettings(s) ==
    \E n \in 0..MaxPath :
        \E path \in [1..n -> Names],
           kind \in ChartTypes \cup {"Pie"},
           val \in {Unset, "None"} \cup Names,
           col \in {Unset, "None"} \cup Names,
           scheme \in {Unset, "Default", "Viridis"},
           size \in {<<800, 800>>, <<400, 1200>>} :
            s = [ chart_type |-> kind, color_scheme |-> scheme,
                  width |-> size[1], height |-> size[2],
                  path_columns |-> path, values_column |-> val,
                  color_column |-> col ]

ChartInit ==
    /\ IsChartTable(tbl)
    /\ IsSettings(settings)
    /\ vres = NoVerdict
    /\ out1 = NoFrame
    /\ out2 = NoFrame
    /\ uout = NoFrame
    /\ pc = "start"
    /\ fig = <<>>
    /\ errors = <<>>
    /\ calls = <<>>
    /\ session = NoSession
    /\ uploaded = FALSE
    /\ log = <<>>

CreateChart ==
    /\ pc = "start"
    /\ \E ctor_ok \in BOOLEAN :
        LET r == create_chart(tbl, settings, ctor_ok)
        IN  /\ fig' = r.fig
            /\ errors' = r.errors
            /\ calls' = r.calls
    /\ pc' = "returned"
    /\ UNCHANGED <<tbl, settings, prepVars, uiVars>>

ChartNext == CreateChart

SpecChart == ChartInit /\ [][ChartNext]_vars

\* ------------------------------------- the script: __init__ and run
\* default_settings of initialize_session_state
default_settings ==
    [ chart_type |-> "Sunburst", color_scheme |-> "Default",
      width |-> 800, height |-> 800, data |-> Unset, error |-> Unset ]

\* mutant: st.session_state[key] = value without the "not in" test
initialize_session_state_overwrite(ss) ==
    [ k \in DOMAIN ss \cup DOMAIN default_settings |->
        IF k \in DOMAIN default_settings THEN default_settings[k] ELSE ss[k] ]

\* for key, value in default_settings.items():
\*     if key not in st.session_state: st.session_state[key] = value
initialize_session_state(ss) ==
    [ k \in DOMAIN ss \cup DOMAIN default_settings |->
        IF k \in DOMAIN ss THEN ss[k] ELSE default_settings[k] ]

\* the sidebar widgets: key -> the values the user can pick, and the value of
\* a widget the session state holds nothing for (a selectbox's first option)
SidebarOptions ==
    [ chart_select |-> {"Sunburst", "Treemap", "Icicle"},
      color_select |-> {"Default", "Viridis", "Plasma", "Blues", "Reds"},
      width |-> {400, 800, 1200},
      height |-> {400, 800, 1200} ]

SidebarDefault ==
    [ chart_select |-> "Sunburst", color_select |-> "Default",
      width |-> 800, height |-> 800 ]

\* what a keyed widget returns: the session's value under its key when there
\* is one, else its default
widget(ss, key) == IF key \in DOMAIN ss THEN ss[key] ELSE SidebarDefault[key]

\* the session state once the sidebar widgets are drawn
with_widgets(ss) ==
    [ k \in DOMAIN ss \cup DOMAIN SidebarDefault |->
        IF k \in DOMAIN SidebarDefault THEN widget(ss, k) ELSE ss[k] ]

\* a frame pd.read_csv returns: distinct labels, here a, b, c in order
IsUpload(df) ==
    \E s \in Shapes :
        /\ s[2] <= MaxChartCols
        /\ \E data \in [1..s[1] -> [1..s[2] -> {NA, PosInf, "n1", "'1'"}]] :
              df = Frame(SubSeq(<<"a", "b", "c", "d", "e">>, 1, s[2]),
                         [i \in 1..s[1] |-> i], data)

Call(op, df, path) == [op |-> op, df |-> df, path |-> path]

\* mutant: the return after st.error(error_msg) is missing
after_validate_no_return(v) == "validated"

\* if not is_valid: st.error(error_msg); return
after_validate(v) == IF v.valid THEN "validated" ELSE "done"

\* df.select_dtypes(include=['number']).columns
numeric_cols(df) ==
    SelectSeq(df.columns,
              LAMBDA name : \E j \in 1..NCols(df) :
                  df.columns[j] = name /\ ~IsObject(Column(df, j)))

SeqRange(q) == { q[i] : i \in 1..Len(q) }

RunInit ==
    /\ tbl = NoFrame
    /\ vres = NoVerdict
    /\ out1 = NoFrame
    /\ out2 = NoFrame
    /\ uout = NoFrame
    /\ pc = "idle"
    /\ settings = NoSettings
    /\ fig = <<>>
    /\ errors = <<>>
    /\ calls = <<>>
    /\ session = NoSession
    /\ uploaded = FALSE
    /\ log = <<>>

\* the user moves a sidebar widget: Streamlit stores the value under the
\* widget's key and reruns the script
UserWidget ==
    /\ pc = "idle"
    /\ \E k \in DOMAIN SidebarOptions \cap DOMAIN session :
        \E v \in SidebarOptions[k] :
            session' = [session EXCEPT ![k] = v]
    /\ UNCHANGED <<tbl, pc, prepVars, chartVars, uploaded, log>>

\* the user puts a file into the uploader
UserUpload ==
    /\ pc = "idle"
    /\ "chart_select" \in DOMAIN session
    /\ IsUpload(tbl')
    /\ uploaded' = TRUE
    /\ UNCHANGED <<pc, prepVars, chartVars, session, log>>

\* DataVisualizer(): set_page_config, initialize_session_state
Construct ==
    /\ pc = "idle"
    /\ session' = initialize_session_state(session)
    /\ pc' = "constructed"
    /\ UNCHANGED <<tbl, prepVars, chartVars, uploaded, log>>

\* run(): title and sidebar; settings holds the four sidebar values
Sidebar ==
    /\ pc = "constructed"
    /\ session' = with_widgets(session)
    /\ settings' = [ chart_type |-> widget(session, "chart_select"),
                     color_scheme |-> widget(session, "color_select"),
                     width |-> widget(session, "width"),
                     height |-> widget(session, "height") ]
    /\ pc' = "sidebar"
    /\ UNCHANGED <<tbl, prepVars, fig, errors, calls, uploaded, log>>

\* run(): the uploader; with a file, pd.read_csv (which may raise) and
\* validate_data
ReadAndValidate ==
    /\ pc = "sidebar"
    /\ \E read_ok \in BOOLEAN :
        IF ~uploaded
        THEN /\ pc' = "done"
             /\ UNCHANGED <<vres, errors, log>>
        ELSE IF ~read_ok
        THEN /\ errors' = << [prefix |-> "Error processing file",
                              text |-> "<raised by read_csv>", names |-> <<>>] >>
             /\ pc' = "done"
             /\ UNCHANGED <<vres, log>>
        ELSE /\ vres' = validate_data(tbl)
             /\ log' = Append(log, Call("validate_data", tbl, <<>>))
             /\ errors' = IF vres'.valid THEN <<>>
                          ELSE << [prefix |-> "", text |-> vres'.message,
                                   names |-> <<>>] >>
             /\ pc' = after_validate(vres')
    /\ UNCHANGED <<tbl, out1, out2, uout, settings, fig, calls, session, uploaded>>

\* run(): df = process_data(df) and the preview
ProcessStep ==
    /\ pc = "validated"
    /\ out1' = process_data(tbl)
    /\ log' = Append(log, Call("process_data", tbl, <<>>))
    /\ pc' = "processed"
    /\ UNCHANGED <<tbl, vres, out2, uout, chartVars, session, uploaded>>

\* run(): the three column pickers and the Generate button
Generate ==
    /\ pc = "processed"
    /\ \E n \in 0..NCols(out1) :
       \E pick \in [1..n -> 1..NCols(out1)] :
       \E values_col \in {"None"} \cup SeqRange(numeric_cols(out1)),
          color_col \in {"None"} \cup SeqRange(out1.columns),
          button \in BOOLEAN, ctor_ok \in BOOLEAN :
        LET path_cols == [i \in 1..n |-> out1.columns[pick[i]]]
            chart_settings ==
                [ chart_type |-> settings.chart_type,
                  color_scheme |-> settings.color_scheme,
                  width |-> settings.width, height |-> settings.height,
                  path_columns |-> path_cols,
                  values_column |-> values_col,
                  color_column |-> color_col ]
            r == create_chart(out1, chart_settings, ctor_ok)
        IN  /\ \A i, j \in 1..n : pick[i] = pick[j] => i = j
            /\ IF ~button
               THEN UNCHANGED <<chartVars, log>>
               ELSE IF path_cols = <<>>
               THEN /\ errors' = << [prefix |-> "",
                        text |-> "Please select at least one hierarchy column",
                        names |-> <<>>] >>
                    /\ UNCHANGED <<settings, fig, calls, log>>
               ELSE /\ settings' = chart_settings
                    /\ fig' = r.fig
                    /\ errors' = r.errors
                    /\ calls' = r.calls
                    /\ log' = Append(log, Call("create_chart", out1, path_cols))
    /\ pc' = "done"
    /\ UNCHANGED <<tbl, prepVars, session, uploaded>>

\* run() returns: its locals are gone, the session state and the uploader stay
Finish ==
    /\ pc = "done"
    /\ pc' = "idle"
    /\ vres' = NoVerdict
    /\ out1' = NoFrame
    /\ settings' = NoSettings
    /\ fig' = <<>>
    /\ errors' = <<>>
    /\ calls' = <<>>
    /\ log' = <<>>
    /\ UNCHANGED <<tbl, out2, uout, session, uploaded>>

RunNext ==
    \/ UserUpload
    \/ Construct
    \/ Sidebar
    \/ ReadAndValidate
    \/ ProcessStep
    \/ Generate
    \/ Finish

SpecRun == RunInit /\ [][RunNext]_vars

SessionNext ==
    \/ UserWidget
    \/ Construct
    \/ Sidebar
    \/ ReadAndValidate
    \/ Finish

SpecSession == RunInit /\ [][SessionNext]_vars

\* ------------------------------------------- Data Preparer: the claims
AllMissingRow(df, i) == \A j \in 1..NCols(df) : df.data[i][j] = NA
AllMissingCol(df, j) == \A i \in 1..NRows(df) : df.data[i][j] = NA
PresentRows(df) ==
    SelectSeq([i \in 1..NRows(df) |-> i], LAMBDA i : ~AllMissingRow(df, i))
PresentCols(df) ==
    SelectSeq([j \in 1..NCols(df) |-> j], LAMBDA j : ~AllMissingCol(df, j))
Labels(df) == { df.columns[j] : j \in 1..NCols(df) }
DistinctLabels(df) == Cardinality(Labels(df)) = NCols(df)
AllCells(df) == { df.data[i][j] : i \in 1..NRows(df), j \in 1..NCols(df) }

\* C1: validate_data answers (True, "") exactly for a table with at least one
\* row, at least two columns and no repeated column name; otherwise it answers
\* False with the non-empty message of the first failing check, in the order
\* empty input, fewer than two columns, duplicate column names.
C1_ValidateVerdict ==
    pc # "start" =>
        /\ vres.valid = (NRows(tbl) >= 1 /\ NCols(tbl) >= 2 /\ DistinctLabels(tbl))
        /\ vres.valid = (vres.message = "")
        /\ (NRows(tbl) = 0 \/ NCols(tbl) = 0)
               => vres.message = "The uploaded file is empty"
        /\ (NRows(tbl) >= 1 /\ NCols(tbl) = 1)
               => vres.message = "File must contain at least two columns"
        /\ (NRows(tbl) >= 1 /\ NCols(tbl) >= 2 /\ ~DistinctLabels(tbl))
               => vres.message = "File contains duplicate column names"

\* the columns a, a, b are rejected as duplicates
C1_Witness ==
    /\ pc = "validated"
    /\ tbl.columns = <<"a", "a", "b">>
    /\ NRows(tbl) = 1
    /\ vres = Verdict(FALSE, "File contains duplicate column names")

\* C2 as claimed, on the tables validate_data accepts (the ones run() hands to
\* process_data): processing the processed table changes nothing.
C2_Idempotent == (pc = "reprocessed" /\ vres.valid) => out2 = out1

\* the rows and columns of df that are not all missing, in df's order
SurvivorsOf(df, res) ==
    /\ res.index = [k \in 1..Len(PresentRows(df)) |-> df.index[PresentRows(df)[k]]]
    /\ res.columns = [k \in 1..Len(PresentCols(df)) |-> df.columns[PresentCols(df)[k]]]
    /\ Len(res.data) = Len(res.index)
    /\ \A i \in 1..Len(res.data) : Len(res.data[i]) = Len(res.columns)

\* C3: both process_data functions drop exactly the rows of the input whose
\* cells are all missing and the columns of the input whose cells are all
\* missing, and keep the others in their order.
C3_DropsAllMissing ==
    /\ pc \in {"processed", "reprocessed", "done"} => SurvivorsOf(tbl, out1)
    /\ pc = "done" => SurvivorsOf(tbl, uout)

\* row 1 and column 2 are all missing and go, row 2 and column 1 stay
C3_Witness ==
    /\ pc = "done"
    /\ tbl.data = << <<NA, NA>>, <<"'x'", NA>> >>
    /\ out1.index = <<2>> /\ NCols(out1) = 1
    /\ uout.index = <<2>> /\ NCols(uout) = 1

TextualCol(df, j) == NRows(df) >= 1 /\ \A i \in 1..NRows(df) : df.data[i][j] \in Texts
NumberOf(c) == IF c = "'1'" THEN "n1" ELSE PosInf

\* C4: in a table with distinct column names, a column of strings comes out of
\* process_data as its numbers when every cell is a numeric string, and cell for
\* cell as it went in when some cell is not, whatever the other columns hold.
C4_AllOrNothing ==
    (pc \in {"processed", "reprocessed", "done"} /\ DistinctLabels(tbl)) =>
        \A j \in 1..NCols(tbl) :
            TextualCol(tbl, j) =>
                \E k \in 1..NCols(out1) :
                    /\ out1.columns[k] = tbl.columns[j]
                    /\ NRows(out1) = NRows(tbl)
                    /\ IF \A i \in 1..NRows(tbl) : tbl.data[i][j] \in NumericTexts
                       THEN \A i \in 1..NRows(tbl) :
                                out1.data[i][k] = NumberOf(tbl.data[i][j])
                       ELSE \A i \in 1..NRows(tbl) :
                                out1.data[i][k] = tbl.data[i][j]

\* column a = "1", "x" stays text while column b = "1", "1" becomes 1, 1
C4_Witness ==
    /\ pc = "processed"
    /\ tbl.columns = <<"a", "b">>
    /\ tbl.data = << <<"'1'", "'1'">>, <<"'x'", "'1'">> >>
    /\ out1.data = << <<"'1'", "n1">>, <<"'x'", "n1">> >>

\* C10 as claimed, on the tables validate_data accepts: no cell of the table
\* process_data returns is an infinity.
C10_NoInfinity ==
    (pc \in {"processed", "reprocessed", "done"} /\ vres.valid) =>
        AllCells(out1) \cap {PosInf, NegInf} = {}

\* ------------------------------------------- Chart Builder: the claims
InTable(name) == name \in Labels(tbl)
PathGiven == settings.path_columns # <<>>
KindKnown == settings.chart_type \in {"Sunburst", "Treemap", "Icicle"}
PathFound == \A i \in 1..Len(settings.path_columns) : InTable(settings.path_columns[i])
ValuesAsked == settings.values_column \notin {Unset, "None"}
ColorAsked == settings.color_column \notin {Unset, "None"}
SchemeAsked == settings.color_scheme \notin {Unset, "Default"}
ValuesFound == ValuesAsked => InTable(settings.values_column)
ColorFound == ColorAsked => InTable(settings.color_column)
AllChecksPass == PathGiven /\ KindKnown /\ PathFound /\ ValuesFound /\ ColorFound
Reported(text) == Len(errors) = 1 /\ errors[1].text = text

\* C5: create_chart reports the first failing check only, in the order: no
\* hierarchy columns, unknown chart kind, a hierarchy column missing from the
\* table, the values column missing, the color column missing; with no
\* hierarchy columns the report is that one whatever else is wrong.
C5_FirstFailingCheck ==
    pc = "returned" =>
        /\ ~PathGiven => Reported("No hierarchy columns selected")
        /\ (PathGiven /\ ~KindKnown) =>
               /\ Reported("Invalid chart type")
               /\ errors[1].names = <<settings.chart_type>>
        /\ (PathGiven /\ KindKnown /\ ~PathFound) =>
               /\ Reported("Columns not found in data")
               /\ errors[1].names =
                      SelectSeq(settings.path_columns, LAMBDA c : ~InTable(c))
        /\ (PathGiven /\ KindKnown /\ PathFound /\ ~ValuesFound) =>
               /\ Reported("Values column not found in data")
               /\ errors[1].names = <<settings.values_column>>
        /\ (PathGiven /\ KindKnown /\ PathFound /\ ValuesFound /\ ~ColorFound) =>
               /\ Reported("Color column not found in data")
               /\ errors[1].names = <<settings.color_column>>

\* no hierarchy, an unknown kind and two missing columns: the hierarchy is reported
C5_Witness ==
    /\ pc = "returned"
    /\ settings.path_columns = <<>>
    /\ settings.chart_type = "Pie"
    /\ ValuesAsked /\ ~ValuesFound /\ ColorAsked /\ ~ColorFound
    /\ Reported("No hierarchy columns selected")

\* C6: create_chart returns a figure, or None with one reported message; the
\* chart constructor is called at most once, and only when all five checks
\* pass; when a check or the constructor fails there is no figure and no
\* second call.
C6_ChartOrError ==
    pc = "returned" =>
        /\ Len(fig) <= 1 /\ Len(calls) <= 1
        /\ fig # <<>> => (errors = <<>> /\ Len(calls) = 1)
        /\ fig = <<>> => Len(errors) = 1
        /\ calls # <<>> => AllChecksPass
        /\ ~AllChecksPass => (fig = <<>> /\ calls = <<>>)

\* the values column is not in the table: an error, no constructor call, no figure
C6_Witness ==
    /\ pc = "returned"
    /\ PathGiven /\ KindKnown /\ PathFound /\ ~ValuesFound
    /\ fig = <<>> /\ calls = <<>>
    /\ Reported("Values column not found in data")

\* C7: when all checks pass the constructor gets the table, the path in the
\* given order, the width and the height; the sizing field iff a values column
\* is chosen; the coloring field iff a color column is chosen; the palette iff
\* a color scheme other than "Default" is chosen, with or without a coloring
\* field.
C7_ChartParams ==
    (pc = "returned" /\ AllChecksPass) =>
        /\ Len(calls) = 1
        /\ calls[1].data_frame = tbl
        /\ calls[1].path = settings.path_columns
        /\ calls[1].width = settings.width
        /\ calls[1].height = settings.height
        /\ calls[1].values =
               (IF ValuesAsked THEN settings.values_column ELSE "<absent>")
        /\ calls[1].color =
               (IF ColorAsked THEN settings.color_column ELSE "<absent>")
        /\ calls[1].color_continuous_scale =
               (IF SchemeAsked THEN settings.color_scheme ELSE "<absent>")

\* a palette without a coloring field, and a sizing field
C7_Witness ==
    /\ pc = "returned"
    /\ fig # <<>>
    /\ settings.path_columns = <<"a", "b">>
    /\ settings.values_column = "b" /\ settings.color_column = "None"
    /\ settings.color_scheme = "Viridis"
    /\ calls[1].values = "b" /\ calls[1].color = "<absent>"
    /\ calls[1].color_continuous_scale = "Viridis"
    /\ fig[1].params = calls[1]

\* ------------------------------------------------- run: the claims
Accepted(df) == NRows(df) >= 1 /\ NCols(df) >= 2 /\ DistinctLabels(df)
Pipeline == <<"validate_data", "process_data", "create_chart">>

\* C8: in one run of the script the calls are validate_data, then
\* process_data, then create_chart, each at most once; process_data only on a
\* table validate_data accepted; create_chart only on what process_data
\* returned for that table and with a non-empty path; a rejected table ends
\* the run with its message and nothing processed, previewed or drawn.
C8_PipelineOrder ==
    /\ Len(log) <= 3
    /\ \A i \in 1..Len(log) : log[i].op = Pipeline[i]
    /\ Len(log) >= 1 => (log[1].df = tbl /\ vres.valid = Accepted(tbl))
    /\ Len(log) >= 2 => (Accepted(tbl) /\ log[2].df = tbl)
    /\ pc \in {"validated", "processed"} => Accepted(tbl)
    /\ Len(log) = 3 =>
           /\ log[3].df = process_data(log[2].df)
           /\ log[3].path # <<>>
           /\ \A i \in 1..Len(calls) : calls[i].data_frame = log[3].df
    /\ (Len(log) < 3) => (fig = <<>> /\ calls = <<>>)
    /\ (Len(log) >= 1 /\ ~Accepted(tbl)) =>
           /\ pc = "done" /\ Len(log) = 1
           /\ out1 = NoFrame
           /\ Len(errors) = 1 /\ errors[1].text = vres.message

\* a run that drew a chart from a table that processing changed
C8_Witness ==
    /\ pc = "done"
    /\ Len(log) = 3
    /\ fig # <<>>
    /\ out1 # tbl
    /\ calls[1].data_frame = out1

\* C9: no step of the script changes or removes a value the session state
\* holds; initialize_session_state only adds the keys that are absent, with
\* their defaults. Only the user's own widget change replaces a value.
C9_SessionKept ==
    [][ /\ (pc # "idle" \/ pc' # "idle") =>
              \A k \in DOMAIN session :
                  k \in DOMAIN session' /\ session'[k] = session[k]
        /\ (pc = "idle" /\ pc' = "constructed") =>
              \A k \in DOMAIN session' \ DOMAIN session :
                  /\ k \in {"chart_type", "color_scheme", "width", "height",
                            "data", "error"}
                  /\ session'[k] = default_settings[k]
      ]_vars

\* the width and the palette chosen earlier are there after the next run's
\* initialize_session_state
C9_Witness ==
    /\ pc = "constructed"
    /\ "width" \in DOMAIN session /\ session["width"] = 1200
    /\ "color_select" \in DOMAIN session /\ session["color_select"] = "Viridis"
    /\ session["chart_type"] = "Sunburst"

====
